---- MODULE Spec2Model ----
(***************************************************************************)
(* Model of src/data_pipeline/main.py: the incremental synchronisation of  *)
(* onfly.payment_invoice into the Parquet table billing_status_summary.    *)
(*                                                                         *)
(* One run of the script is the sequence                                   *)
(*   StartRun -> ResolveWatermark -> Extract -> TransformRows              *)
(*            -> Upsert -> StoreWriter -> Finish                           *)
(* and the MySQL source changes concurrently (InsertInvoice, ModifyInvoice,*)
(* SoftDelete, Tick).  Timestamps are naturals denoting UTC instants; the  *)
(* DuckDB session time zone is taken to be UTC, so that the cast between   *)
(* TIMESTAMP WITH TIME ZONE and TIMESTAMP keeps the instant.               *)
(***************************************************************************)
EXTENDS Integers, Sequences, FiniteSets, TLC

(* ------------------------------ bounds -------------------------------- *)

\* Invoices that may exist in onfly.payment_invoice are 1..NumInvoices.
NumInvoices == 2

\* The source clock runs from 1 to MaxTime.
MaxTime == 2

\* At most MaxChanges inserts, modifications and soft deletes of the source.
MaxChanges == 2

InvoiceIds == 1..NumInvoices

Times == 1..MaxTime

(* ------------------------- values of the source ----------------------- *)

\* pandas' NaT / SQL NULL of a timestamp column (times start at 1).
NaT == 0

\* SQL NULL of a string column as pandas receives it (None).
NullStr == "<NULL>"

\* f-string value of updated_at_filter on the bootstrap run.
NoFilter == -1

\* Name of the object COPY writes, the only one matching GCS_PARQUET_PATH
\* that the script ever creates.
GCS_OUTPUT_PATH == "billing_status_summary.parquet"

\* Objects that GCS_PARQUET_PATH ('.../*.parquet') can match.
ParquetFiles == {GCS_OUTPUT_PATH}

\* onfly.companies: id -> nome, as a sequence of characters.
Companies ==
    (1 :> <<" ", "O", "n", "-", "f", "l", "y", " ", " ", "S", "A", ".">>) @@
    (2 :> <<"A", "c", "m", "e", "1", " ">>)

\* Characters kept by the class [A-Za-zÀ-ÿ ] apart from the space.
Letters == {"O", "n", "f", "l", "y", "S", "A", "c", "m", "e"}

\* Tokens that match \d{2}/\d{2}/\d{4}.
DateTokens == {"01/01/2024", "31/01/2024"}

\* Tokens that are runs of whitespace.
Whitespace == {" ", "  ", "\t"}

\* The columns of payment_invoice a writer of the source chooses.  A NULL
\* description is description.null = TRUE.
Payloads ==
    { [company_id  |-> 1,
       description |-> [null |-> FALSE,
                        tokens |-> <<"Fatura", "  ", "01/01/2024", " ",
                                     "31/01/2024">>],
       status      |-> "pending",
       process     |-> NullStr,
       type        |-> 1,
       amount      |-> 123456,
       due_date    |-> 2],
      [company_id  |-> 2,
       description |-> [null |-> FALSE,
                        tokens |-> <<"Fatura", " ", "01/01/2024">>],
       status      |-> "paid",
       process     |-> "done",
       type        |-> 2,
       amount      |-> 2050,
       due_date    |-> 3],
      [company_id  |-> 2,
       description |-> [null |-> TRUE, tokens |-> <<>>],
       status      |-> "pending",
       process     |-> NullStr,
       type        |-> 3,
       amount      |-> 99,
       due_date    |-> 1] }

\* An id with no row in payment_invoice.
NoRow == [exists |-> FALSE]

(* ------------------------------ state --------------------------------- *)

VARIABLES
    payment_invoice,    \* onfly.payment_invoice: id -> row or NoRow
    clock,              \* NOW() of the source and datetime.now() of the run
    changes,            \* number of source changes so far
    gcs,                \* object store: name of each existing file -> rows
    pc,                 \* position of the script
    updated_at_filter,  \* watermark of the run, or NoFilter
    billing_status_summary_historical, \* DuckDB table (in memory)
    new_invoice_df,     \* rows returned by billing_query
    final_invoice_df,   \* transformed rows = billing_status_summary_new
    h_last_watermark,   \* history: the last watermark an earlier run used
    h_pre_merge,        \* history: the table before the UPSERT of this run
    h_gcs_at_start,     \* history: gcs when this run started
    h_prev_store,       \* history: gcs when the last successful run ended
    h_have_prev,        \* history: the last finished run was successful
    h_chg_cur,          \* history: source changed since this run started
    h_chg_prev          \* history: source changed since the last
                        \*          successful run started

srcVars == <<payment_invoice, clock, changes>>

runVars == <<pc, updated_at_filter, billing_status_summary_historical,
             new_invoice_df, final_invoice_df>>

histVars == <<h_last_watermark, h_pre_merge, h_gcs_at_start, h_prev_store,
              h_have_prev, h_chg_cur, h_chg_prev>>

vars == <<payment_invoice, clock, changes, gcs, pc, updated_at_filter,
          billing_status_summary_historical, new_invoice_df,
          final_invoice_df, h_last_watermark, h_pre_merge, h_gcs_at_start,
          h_prev_store, h_have_prev, h_chg_cur, h_chg_prev>>

(* ------------------- billing_query (lines 73-105) --------------------- *)

RECURSIVE ThousandsGroups(_)
\* The integer part of MySQL's FORMAT(x, 2), split at its ',' separators.
ThousandsGroups(n) ==
    IF n < 1000 THEN <<n>>
    ELSE ThousandsGroups(n \div 1000) \o <<n % 1000>>

\* FORMAT(payment_invoice.amount / 100, 2): '1,234.56'.
FormatAmount(minor) ==
    [groups |-> ThousandsGroups(minor \div 100), frac |-> minor % 100]

\* CASE payment_invoice.type WHEN 1 ... WHEN 2 ... ELSE '' END
\* (the label of type 2 is written here without its diacritics).
PaymentType(type) ==
    IF type = 1 THEN "Boleto"
    ELSE IF type = 2 THEN "Cartao de Credito"
    ELSE ""

\* One row of the inner SELECT for the invoice id.
BillingRow(id) ==
    LET r == payment_invoice[id] IN
    [company_name       |-> Companies[r.company_id],
     company_id         |-> ToString(r.company_id),
     invoice_generation |-> r.created_at,
     due_date           |-> r.due_date,
     payment_date       |-> IF r.status = "paid" THEN r.updated_at ELSE NaT,
     description        |-> r.description,
     status_invoice     |-> r.status,
     status_process     |-> r.process,
     amount             |-> FormatAmount(r.amount),
     payment_type       |-> PaymentType(r.type),
     invoice_id         |-> id,
     updated_at         |-> r.updated_at]

\* Variant of the WHERE clause that compares with >= instead of >.
PassesFilterInclusive(r, filter) ==
    /\ r.exists
    /\ ~r.deleted
    /\ (filter = NoFilter \/ r.updated_at >= filter)

\* WHERE deleted_at IS NULL {updated_at_filter}
PassesFilter(r, filter) ==
    /\ r.exists
    /\ ~r.deleted
    /\ (filter = NoFilter \/ r.updated_at > filter)

\* Ids of the rows the WHERE clause keeps.
SelectedIds(filter) ==
    {id \in InvoiceIds : PassesFilter(payment_invoice[id], filter)}

RECURSIVE OrderByDueDate(_)
\* ORDER BY payment_invoice.due_date; rows of equal due_date are returned
\* in the order of the primary key.
OrderByDueDate(ids) ==
    IF ids = {} THEN <<>>
    ELSE LET first == CHOOSE i \in ids : \A j \in ids :
                          \/ payment_invoice[i].due_date
                                 < payment_invoice[j].due_date
                          \/ /\ payment_invoice[i].due_date
                                    = payment_invoice[j].due_date
                             /\ i <= j
         IN <<BillingRow(first)>> \o OrderByDueDate(ids \ {first})

\* pd.read_sql_query(billing_query, mysql_engine)
BillingQuery(filter) == OrderByDueDate(SelectedIds(filter))

(* ------------------- Row Transformer (lines 110-165) ------------------ *)

\* .str.replace(r"\s+", " ", regex=True) on the description.
CollapseWhitespace(tokens) ==
    [i \in 1..Len(tokens) |->
        IF tokens[i] \in Whitespace THEN " " ELSE tokens[i]]

IsDateToken(t) == t \in DateTokens

\* re.findall(r'\d{2}/\d{2}/\d{4}', x)
FindAllDates(tokens) == SelectSeq(tokens, IsDateToken)

\* The lambda of lines 118-119.
BillingPeriod(description) ==
    LET found == FindAllDates(CollapseWhitespace(description.tokens)) IN
    IF Len(found) > 1 THEN found[1] \o " - " \o found[2] ELSE ""

IsNameChar(c) == c \in Letters \cup {" "}

RECURSIVE CollapseSpaces(_)
\* .str.replace(r"\s+", " ", regex=True) on a sequence of characters.
CollapseSpaces(cs) ==
    IF Len(cs) < 2 THEN cs
    ELSE IF cs[1] = " " /\ cs[2] = " " THEN CollapseSpaces(Tail(cs))
    ELSE <<cs[1]>> \o CollapseSpaces(Tail(cs))

RECURSIVE Strip(_)
\* .str.strip()
Strip(cs) ==
    IF cs = <<>> THEN cs
    ELSE IF cs[1] = " " THEN Strip(Tail(cs))
    ELSE IF cs[Len(cs)] = " " THEN Strip(SubSeq(cs, 1, Len(cs) - 1))
    ELSE cs

\* Lines 123-128.
CleanCompanyName(cs) == Strip(CollapseSpaces(SelectSeq(cs, IsNameChar)))

RECURSIVE JoinGroups(_)
\* .str.replace(",", "") followed by the reading of the integer part.
JoinGroups(groups) ==
    IF groups = <<>> THEN 0
    ELSE JoinGroups(SubSeq(groups, 1, Len(groups) - 1)) * 1000
             + groups[Len(groups)]

\* pd.to_numeric(...).round(2), in hundredths.
ToNumeric(formatted) == JoinGroups(formatted.groups) * 100 + formatted.frac

\* .fillna('')
FillNa(v) == IF v = NullStr THEN "" ELSE v

\* re.findall raises TypeError on the None of a NULL description.
Transformable(raw) == ~raw.description.null

\* The thirteen final_columns of one raw row, stamped with the run time.
TransformRow(raw, now) ==
    [invoice_id         |-> ToString(raw.invoice_id),
     company_id         |-> raw.company_id,
     company_name       |-> CleanCompanyName(raw.company_name),
     billing_period     |-> BillingPeriod(raw.description),
     invoice_generation |-> raw.invoice_generation,
     due_date           |-> raw.due_date,
     payment_date       |-> raw.payment_date,
     status_invoice     |-> raw.status_invoice,
     status_process     |-> FillNa(raw.status_process),
     payment_type       |-> raw.payment_type,
     amount             |-> ToNumeric(raw.amount),
     updated_at         |-> raw.updated_at,
     inserted_at        |-> now]

\* Lines 111-165 over the whole frame.
TransformFrame(raws, now) ==
    [i \in 1..Len(raws) |-> TransformRow(raws[i], now)]

\* Variant in which a bad row never raises (errors are coerced).
NeverRaises(raws) == FALSE

\* Some row of the frame makes the transformation raise.
FrameRaises(raws) == \E i \in 1..Len(raws) : ~Transformable(raws[i])

(* ---------------- Watermark Resolver (lines 28-65) -------------------- *)

\* glob(GCS_PARQUET_PATH)
Glob(store) == DOMAIN store

RECURSIVE ReadFiles(_, _)
ReadFiles(store, files) ==
    IF files = {} THEN <<>>
    ELSE LET f == CHOOSE x \in files : TRUE
         IN store[f] \o ReadFiles(store, files \ {f})

\* read_parquet(GCS_PARQUET_PATH): the rows of every matching object.
ReadParquet(store) == ReadFiles(store, Glob(store))

\* Variant of the watermark that takes MIN(updated_at).
MinUpdatedAt(rows) ==
    IF rows = <<>> THEN NaT
    ELSE LET ts == {rows[i].updated_at : i \in 1..Len(rows)}
         IN CHOOSE t \in ts : \A u \in ts : t <= u

\* SELECT MAX(updated_at); NaT over no row.
MaxUpdatedAt(rows) ==
    IF rows = <<>> THEN NaT
    ELSE LET ts == {rows[i].updated_at : i \in 1..Len(rows)}
         IN CHOOSE t \in ts : \A u \in ts : u <= t

(* ------------------- Merge Engine (lines 177-201) --------------------- *)

Matches(source, key) ==
    {j \in 1..Len(source) : source[j].invoice_id = key}

\* Variant of the UPDATE that leaves inserted_at alone.
UpdateKeepStamp(target, source) ==
    [i \in 1..Len(target) |->
        LET m == Matches(source, target[i].invoice_id) IN
        IF m = {} THEN target[i]
        ELSE LET s == source[CHOOSE j \in m : TRUE] IN
             [target[i] EXCEPT
                !.invoice_generation = s.invoice_generation,
                !.due_date           = s.due_date,
                !.payment_date       = s.payment_date,
                !.status_invoice     = s.status_invoice,
                !.status_process     = s.status_process,
                !.payment_type       = s.payment_type,
                !.amount             = s.amount,
                !.updated_at         = s.updated_at]]

\* Variant of the UPDATE whose updated_at takes the column of the line
\* above it in the SET list (payment_date).
UpdateWrongColumn(target, source) ==
    [i \in 1..Len(target) |->
        LET m == Matches(source, target[i].invoice_id) IN
        IF m = {} THEN target[i]
        ELSE LET s == source[CHOOSE j \in m : TRUE] IN
             [target[i] EXCEPT
                !.invoice_generation = s.invoice_generation,
                !.due_date           = s.due_date,
                !.payment_date       = s.payment_date,
                !.status_invoice     = s.status_invoice,
                !.status_process     = s.status_process,
                !.payment_type       = s.payment_type,
                !.amount             = s.amount,
                !.updated_at         = s.payment_date,
                !.inserted_at        = s.inserted_at]]

\* UPDATE billing_status_summary_historical ... WHERE source.invoice_id =
\* target.invoice_id
UpdatePhase(target, source) ==
    [i \in 1..Len(target) |->
        LET m == Matches(source, target[i].invoice_id) IN
        IF m = {} THEN target[i]
        ELSE LET s == source[CHOOSE j \in m : TRUE] IN
             [target[i] EXCEPT
                !.invoice_generation = s.invoice_generation,
                !.due_date           = s.due_date,
                !.payment_date       = s.payment_date,
                !.status_invoice     = s.status_invoice,
                !.status_process     = s.status_process,
                !.payment_type       = s.payment_type,
                !.amount             = s.amount,
                !.updated_at         = s.updated_at,
                !.inserted_at        = s.inserted_at]]

\* Variant of the INSERT without the anti-join.
InsertAll(target, source) == target \o source

\* INSERT ... LEFT JOIN ... WHERE target.invoice_id IS NULL
InsertPhase(target, source) ==
    LET Unmatched(s) == Matches(target, s.invoice_id) = {}
    IN target \o SelectSeq(source, Unmatched)

\* Variant of the UPSERT whose INSERT statement is missing.
MergeUpdateOnly(target, source) == UpdatePhase(target, source)

\* The two statements of the duckdb.sql call of line 178.
Merge(target, source) == InsertPhase(UpdatePhase(target, source), source)

(* ------------------- Store Writer (lines 203-212) --------------------- *)

\* Variant of the COPY that exports billing_status_summary_new.
CopyNewTo(store, historical, new) ==
    (GCS_OUTPUT_PATH :> new) @@ store

\* COPY billing_status_summary_historical TO GCS_OUTPUT_PATH (OVERWRITE)
\* (historical and new are the two tables of the DuckDB session).
CopyTo(store, historical, new) ==
    (GCS_OUTPUT_PATH :> historical) @@ store

(* ------------------------------ Init ---------------------------------- *)

\* No invoice yet, no object under the store location, no run in progress.
Init ==
    /\ payment_invoice = [id \in InvoiceIds |-> NoRow]
    /\ clock = 1
    /\ changes = 0
    /\ gcs = <<>>
    /\ pc = "idle"
    /\ updated_at_filter = NoFilter
    /\ billing_status_summary_historical = <<>>
    /\ new_invoice_df = <<>>
    /\ final_invoice_df = <<>>
    /\ h_last_watermark = NoFilter
    /\ h_pre_merge = <<>>
    /\ h_gcs_at_start = <<>>
    /\ h_prev_store = <<>>
    /\ h_have_prev = FALSE
    /\ h_chg_cur = FALSE
    /\ h_chg_prev = FALSE

(* ------------------- the source database (MySQL) ---------------------- *)

SourceRow(p, created, updated, deleted) ==
    [exists      |-> TRUE,
     deleted     |-> deleted,
     created_at  |-> created,
     updated_at  |-> updated,
     company_id  |-> p.company_id,
     description |-> p.description,
     status      |-> p.status,
     process     |-> p.process,
     type        |-> p.type,
     amount      |-> p.amount,
     due_date    |-> p.due_date]

SourceChanged ==
    /\ changes < MaxChanges
    /\ changes' = changes + 1
    /\ h_chg_cur' = TRUE
    /\ h_chg_prev' = TRUE
    /\ UNCHANGED <<clock, gcs, runVars, h_last_watermark, h_pre_merge,
                   h_gcs_at_start, h_prev_store, h_have_prev>>

\* INSERT INTO onfly.payment_invoice
InsertInvoice(id, p) ==
    /\ ~payment_invoice[id].exists
    /\ payment_invoice' =
           [payment_invoice EXCEPT ![id] = SourceRow(p, clock, clock, FALSE)]
    /\ SourceChanged

\* UPDATE onfly.payment_invoice: updated_at becomes NOW()
ModifyInvoice(id, p) ==
    /\ payment_invoice[id].exists
    /\ payment_invoice' =
           [payment_invoice EXCEPT ![id] =
               SourceRow(p, payment_invoice[id].created_at, clock,
                         payment_invoice[id].deleted)]
    /\ SourceChanged

\* Soft delete: deleted_at and updated_at become NOW()
SoftDelete(id) ==
    /\ payment_invoice[id].exists
    /\ ~payment_invoice[id].deleted
    /\ payment_invoice' =
           [payment_invoice EXCEPT ![id].deleted = TRUE,
                                   ![id].updated_at = clock]
    /\ SourceChanged

\* Time passes.
Tick ==
    /\ clock < MaxTime
    /\ clock' = clock + 1
    /\ UNCHANGED <<payment_invoice, changes, gcs, runVars, histVars>>

(* --------------------------- one run ---------------------------------- *)

\* The scheduler starts the script; runs do not overlap.
StartRun ==
    /\ pc = "idle"
    /\ pc' = "resolve"
    /\ h_gcs_at_start' = gcs
    /\ h_chg_cur' = FALSE
    /\ UNCHANGED <<srcVars, gcs, updated_at_filter,
                   billing_status_summary_historical, new_invoice_df,
                   final_invoice_df, h_last_watermark, h_pre_merge,
                   h_prev_store, h_have_prev, h_chg_prev>>

\* Lines 28-65.
ResolveWatermark ==
    /\ pc = "resolve"
    /\ IF Glob(gcs) = {}
       THEN /\ billing_status_summary_historical' = <<>>
            /\ updated_at_filter' = NoFilter
       ELSE /\ updated_at_filter' = MaxUpdatedAt(ReadParquet(gcs))
            /\ billing_status_summary_historical' = ReadParquet(gcs)
    /\ pc' = "extract"
    /\ UNCHANGED <<srcVars, gcs, new_invoice_df, final_invoice_df,
                   h_last_watermark, h_pre_merge, h_gcs_at_start, h_prev_store, h_have_prev,
                   h_chg_cur, h_chg_prev>>

\* Line 108.
Extract ==
    /\ pc = "extract"
    /\ new_invoice_df' = BillingQuery(updated_at_filter)
    /\ pc' = "transform"
    /\ UNCHANGED <<srcVars, gcs, updated_at_filter,
                   billing_status_summary_historical, final_invoice_df,
                   histVars>>

\* Lines 111-169: an exception ends the process; an empty frame ends the
\* run without merge and without write.
TransformRows ==
    /\ pc = "transform"
    /\ IF FrameRaises(new_invoice_df)
       THEN /\ pc' = "failed"
            /\ UNCHANGED final_invoice_df
       ELSE /\ final_invoice_df' = TransformFrame(new_invoice_df, clock)
            /\ pc' = IF final_invoice_df' = <<>> THEN "done" ELSE "merge"
    /\ UNCHANGED <<srcVars, gcs, updated_at_filter,
                   billing_status_summary_historical, new_invoice_df,
                   histVars>>

\* Lines 171-201.
Upsert ==
    /\ pc = "merge"
    /\ h_pre_merge' = billing_status_summary_historical
    /\ billing_status_summary_historical' =
           Merge(billing_status_summary_historical, final_invoice_df)
    /\ pc' = "write"
    /\ UNCHANGED <<srcVars, gcs, updated_at_filter, new_invoice_df,
                   final_invoice_df, h_last_watermark, h_gcs_at_start,
                   h_prev_store, h_have_prev, h_chg_cur, h_chg_prev>>

\* Lines 204-212.
StoreWriter ==
    /\ pc = "write"
    /\ gcs' = CopyTo(gcs, billing_status_summary_historical,
                     final_invoice_df)
    /\ pc' = "done"
    /\ UNCHANGED <<srcVars, updated_at_filter,
                   billing_status_summary_historical, new_invoice_df,
                   final_invoice_df, histVars>>

\* An I/O call of the run (glob, read_parquet, read_sql_query, duckdb.sql)
\* raises before the COPY statement: the process ends.
Abort ==
    /\ pc \in {"resolve", "extract", "transform", "merge"}
    /\ pc' = "failed"
    /\ UNCHANGED <<srcVars, gcs, updated_at_filter,
                   billing_status_summary_historical, new_invoice_df,
                   final_invoice_df, histVars>>

\* The process exits; its in-memory DuckDB database and frames are gone.
Finish ==
    /\ pc \in {"done", "failed"}
    /\ pc' = "idle"
    /\ updated_at_filter' = NoFilter
    /\ billing_status_summary_historical' = <<>>
    /\ new_invoice_df' = <<>>
    /\ final_invoice_df' = <<>>
    /\ h_pre_merge' = <<>>
    /\ h_gcs_at_start' = <<>>
    /\ h_last_watermark' = IF updated_at_filter # NoFilter
                           THEN updated_at_filter
                           ELSE h_last_watermark
    /\ IF pc = "done"
       THEN /\ h_prev_store' = gcs
            /\ h_have_prev' = TRUE
            /\ h_chg_prev' = h_chg_cur
       ELSE UNCHANGED <<h_prev_store, h_have_prev, h_chg_prev>>
    /\ UNCHANGED <<srcVars, gcs, h_chg_cur>>

Next ==
    \/ \E id \in InvoiceIds, p \in Payloads : InsertInvoice(id, p)
    \/ \E id \in InvoiceIds, p \in Payloads : ModifyInvoice(id, p)
    \/ \E id \in InvoiceIds : SoftDelete(id)
    \/ Tick
    \/ StartRun
    \/ ResolveWatermark
    \/ Extract
    \/ TransformRows
    \/ Upsert
    \/ StoreWriter
    \/ Abort
    \/ Finish

Spec == Init /\ [][Next]_vars

(* ============================ properties ============================== *)

Keys(rows) == {rows[i].invoice_id : i \in 1..Len(rows)}

Positions(rows, key) == {i \in 1..Len(rows) : rows[i].invoice_id = key}

OnePerKey(rows) ==
    \A i, j \in 1..Len(rows) :
        rows[i].invoice_id = rows[j].invoice_id => i = j

\* The Historical Store a run would read back now.
Stored == ReadParquet(gcs)

\* The run has passed the Store Writer.
Wrote == pc = "done" /\ final_invoice_df # <<>>

\* Non-soft-deleted invoices of the source.
LiveIds ==
    {id \in InvoiceIds :
        payment_invoice[id].exists /\ ~payment_invoice[id].deleted}

MutableFields ==
    {"company_id", "company_name", "billing_period", "invoice_generation",
     "due_date", "payment_date", "status_invoice", "status_process",
     "payment_type", "amount", "updated_at"}

(* C1: key uniqueness.  At every moment the persisted Historical Store    *)
(* (what the next run reads back) and the table of the run in progress    *)
(* hold at most one record per invoice_id.                                *)
C1_KeyUniqueness ==
    /\ OnePerKey(Stored)
    /\ OnePerKey(billing_status_summary_historical)

\* A run that read a non-empty store back has merged and written two rows.
C1_Witness ==
    /\ Wrote
    /\ h_pre_merge # <<>>
    /\ Len(Stored) = 2
    /\ Stored = billing_status_summary_historical

(* C2: update phase.  After the merge, every stored record whose          *)
(* invoice_id matches a Delta Batch record equals that record in every    *)
(* mutable field (all fields but invoice_id and inserted_at).             *)
C2_UpdateOverwritesMutableFields ==
    pc = "write" =>
        \A i \in 1..Len(h_pre_merge) :
            \A j \in Positions(final_invoice_df, h_pre_merge[i].invoice_id) :
                \A f \in MutableFields :
                    billing_status_summary_historical[i][f]
                        = final_invoice_df[j][f]

(* C3: untouched rows.  A record of the pre-merge store whose invoice_id  *)
(* is not in the Delta Batch is, after the merge and in the artifact the  *)
(* Store Writer wrote, the one record of its key and equal in every field.*)
C3_UntouchedRowsPreserved ==
    LET before == ReadParquet(h_gcs_at_start)
        KeptIn(rows) ==
            \A i \in 1..Len(before) :
                before[i].invoice_id \notin Keys(final_invoice_df) =>
                    /\ Positions(rows, before[i].invoice_id) # {}
                    /\ \A k \in Positions(rows, before[i].invoice_id) :
                           rows[k] = before[i]
    IN /\ pc = "write" => KeptIn(billing_status_summary_historical)
       /\ pc = "done" => KeptIn(Stored)

\* A run wrote the store after a merge that left a stored record untouched.
C3_Witness ==
    /\ Wrote
    /\ \E i \in 1..Len(h_pre_merge) :
           h_pre_merge[i].invoice_id \notin Keys(final_invoice_df)

(* C4: insert phase.  The merge appends exactly the Delta Batch records   *)
(* whose invoice_id is absent from the pre-merge store, once each and     *)
(* unchanged, after the pre-merge records (kept in place with their       *)
(* keys); the merged store has one row per key of the union; an empty     *)
(* store merged with n distinct ids has n rows with one inserted_at.      *)
C4_InsertPhase ==
    pc = "write" =>
        LET pre  == h_pre_merge
            post == billing_status_summary_historical
            new  == final_invoice_df
            IsNew(r) == r.invoice_id \notin Keys(pre)
        IN /\ Len(post) >= Len(pre)
           /\ \A i \in 1..Len(pre) : post[i].invoice_id = pre[i].invoice_id
           /\ SubSeq(post, Len(pre) + 1, Len(post)) = SelectSeq(new, IsNew)
           /\ Keys(post) = Keys(pre) \cup Keys(new)
           /\ Len(post) = Cardinality(Keys(pre) \cup Keys(new))
           /\ pre = <<>> =>
                  /\ Len(post) = Len(new)
                  /\ \A i, j \in 1..Len(post) :
                         post[i].inserted_at = post[j].inserted_at

\* A merge into a non-empty store has appended a record of a new key.
C4_Witness ==
    /\ pc = "write"
    /\ h_pre_merge # <<>>
    /\ Len(billing_status_summary_historical) > Len(h_pre_merge)
    /\ Keys(final_invoice_df) \cap Keys(h_pre_merge) = {}

(* C5: watermark.  With artifacts in the store location the watermark of  *)
(* the run is the greatest updated_at of their records, and the query     *)
(* returns exactly the live source rows modified strictly after it; with  *)
(* no artifact it returns every live source row.                          *)
C5_WatermarkAndFilter ==
    [][ (pc = "extract" /\ pc' = "transform") =>
          LET got == {new_invoice_df'[i].invoice_id :
                         i \in 1..Len(new_invoice_df')}
          IN /\ Len(new_invoice_df') = Cardinality(got)
             /\ IF Glob(gcs) = {}
                THEN got = LiveIds
                ELSE /\ \E i \in 1..Len(Stored) :
                            Stored[i].updated_at = updated_at_filter
                     /\ \A i \in 1..Len(Stored) :
                            Stored[i].updated_at <= updated_at_filter
                     /\ got = {id \in LiveIds :
                                  payment_invoice[id].updated_at
                                      > updated_at_filter}
      ]_vars

\* A filtered extraction returned one live row and left another one out.
C5_Witness ==
    /\ pc = "transform"
    /\ updated_at_filter # NoFilter
    /\ Len(new_invoice_df) = 1
    /\ Stored # <<>>
    /\ \E id \in LiveIds : payment_invoice[id].updated_at <= updated_at_filter

(* C6: monotonic watermark.  The watermark a run computes is never below  *)
(* the watermark an earlier run computed, and it is never absent again.   *)
C6_MonotonicWatermark ==
    (pc \in {"extract", "transform", "merge", "write", "done"}
        /\ h_last_watermark # NoFilter) =>
            /\ updated_at_filter # NoFilter
            /\ updated_at_filter >= h_last_watermark

\* A run computed a watermark above the one of an earlier run.
C6_Witness ==
    /\ pc = "extract"
    /\ h_last_watermark # NoFilter
    /\ updated_at_filter > h_last_watermark

(* C7: idempotence.  A run with an empty Delta Batch ends without merge   *)
(* and without write; a successful run that follows a successful run with *)
(* no source change since that run started leaves the store as it was.    *)
C7_IdempotentOnNoChange ==
    /\ (pc = "done" /\ final_invoice_df = <<>>) =>
           /\ gcs = h_gcs_at_start
           /\ h_pre_merge = <<>>
           /\ billing_status_summary_historical = ReadParquet(h_gcs_at_start)
    /\ (pc = "done" /\ h_have_prev /\ ~h_chg_prev) => gcs = h_prev_store

\* The second of two runs over an unchanged source ended on a later clock
\* value than the one stamped on a stored record.
C7_Witness ==
    /\ pc = "done"
    /\ h_have_prev
    /\ ~h_chg_prev
    /\ \E i \in 1..Len(Stored) : Stored[i].inserted_at < clock

(* C8: fail-fast.  Until the end of the Store Writer, and in a failed     *)
(* run, the persisted store is the one the run found; a run whose frame   *)
(* holds an untransformable row never gets past the transformation; the   *)
(* store changes only into the full table of a run that ended.            *)
C8_FailFastNoPartialWrite ==
    LET bad == \E i \in 1..Len(new_invoice_df) :
                   ~Transformable(new_invoice_df[i])
    IN /\ pc \in {"resolve", "extract", "transform", "merge", "write",
                  "failed"} => gcs = h_gcs_at_start
       /\ bad => pc \in {"transform", "failed"}
       /\ (pc = "done" /\ gcs # h_gcs_at_start) =>
              /\ final_invoice_df # <<>>
              /\ Stored = billing_status_summary_historical
              /\ Keys(ReadParquet(h_gcs_at_start)) \subseteq Keys(Stored)

\* A run over a non-empty store failed on an untransformable row.
C8_Witness ==
    /\ pc = "failed"
    /\ gcs # <<>>
    /\ \E i \in 1..Len(new_invoice_df) : ~Transformable(new_invoice_df[i])

(* C9 as stated: a merge changes neither invoice_id nor inserted_at of a  *)
(* record that was already stored.                                        *)
C9_InsertedAtImmutable ==
    pc = "write" =>
        \A i \in 1..Len(h_pre_merge) :
            /\ billing_status_summary_historical[i].invoice_id
                   = h_pre_merge[i].invoice_id
            /\ billing_status_summary_historical[i].inserted_at
                   = h_pre_merge[i].inserted_at

(* C9 amended: a merge never changes the invoice_id of a stored record;   *)
(* it replaces inserted_at of a record matched by the Delta Batch with    *)
(* the stamp of the merging run, and keeps it for every other record.     *)
C9_KeyKeptStampRefreshed ==
    pc = "write" =>
        \A i \in 1..Len(h_pre_merge) :
            LET old == h_pre_merge[i]
                now == billing_status_summary_historical[i]
            IN /\ now.invoice_id = old.invoice_id
               /\ \A j \in Positions(final_invoice_df, old.invoice_id) :
                      now.inserted_at = final_invoice_df[j].inserted_at
               /\ old.invoice_id \notin Keys(final_invoice_df) =>
                      now.inserted_at = old.inserted_at

\* A merge has replaced the inserted_at of a stored record with a later one.
C9_Witness ==
    /\ pc = "write"
    /\ \E i \in 1..Len(h_pre_merge) :
           /\ h_pre_merge[i].invoice_id \in Keys(final_invoice_df)
           /\ billing_status_summary_historical[i].inserted_at
                  > h_pre_merge[i].inserted_at

(* C10: no lost change.  When a run that started after the last source    *)
(* change ends successfully, every live source invoice has exactly one    *)
(* stored record, and its updated_at is the source row's current one.     *)
C10_NoLostChange ==
    (pc = "done" /\ ~h_chg_cur) =>
        \A id \in LiveIds :
            /\ Cardinality(Positions(Stored, ToString(id))) = 1
            /\ \A k \in Positions(Stored, ToString(id)) :
                   Stored[k].updated_at = payment_invoice[id].updated_at

====
